---- MODULE Spec2Model ----
(***************************************************************************)
(* Model of jsonrpsee's BatchesState (raw/server/batches.rs): the registry *)
(* of open JSON-RPC client messages.  BatchesState is translated from      *)
(* batches.rs.  batch::BatchState (raw/server/batch.rs) is not part of the *)
(* available sources; it is modelled from the specification's CallTracker  *)
(* (spec.md section 4.1).                                                  *)
(***************************************************************************)
EXTENDS Integers, Sequences, FiniteSets, TLC

(***************************************************************************)
(* Bounds                                                                  *)
(***************************************************************************)
\* Number of values of the ticket counter; stands for 2^64 (u64 next_batch_id).
TicketModulus == 2
\* Number of inject calls in one behaviour.
MaxInjects == 3

(***************************************************************************)
(* Protocol values (common::Call, common::Request, common::Output,         *)
(* common::Response)                                                       *)
(***************************************************************************)
NoId == 0

Notif(m) == [kind |-> "Notification", id |-> NoId, method |-> m]

MethodCall(i, m) == [kind |-> "MethodCall", id |-> i, method |-> m]

Single(call) == [is_batch |-> FALSE, calls |-> <<call>>]

Batch(calls) == [is_batch |-> TRUE, calls |-> calls]

\* Longest list of calls of a client message.
MaxLen == 3

\* The inject calls of the host: a client message and its user parameter.
Injections ==
    {[request |-> Single(Notif("foo")), user_param |-> 2],
     [request |-> Single(MethodCall(123, "foo")), user_param |-> 8889],
     [request |-> Batch(<<>>), user_param |-> 2],
     [request |-> Batch(<<Notif("foo"), Notif("bar")>>), user_param |-> 2],
     [request |-> Batch(<<MethodCall(1, "foo"), Notif("foo"), MethodCall(2, "bar")>>),
      user_param |-> 8889],
     [request |-> Batch(<<MethodCall(2, "bar")>>), user_param |-> 2]}

\* Result<JsonValue, Error> passed to set_response.
Results == {"Ok", "Err"}

Output(result, id) == [id |-> id, result |-> result]

None == [kind |-> "None"]

Some(v) == [kind |-> "Some", value |-> v]

(***************************************************************************)
(* batch::BatchState, from the specification's CallTracker                 *)
(***************************************************************************)
NoSlot == "NoSlot"
Empty == "Empty"

\* CallTracker constructed from a decoded client message: the calls in
\* their original order, one result slot per Request (initially empty),
\* the cursor (number of calls yielded so far).
from_request(request) ==
    [calls    |-> request.calls,
     slots    |-> [i \in 1..Len(request.calls) |->
                     IF request.calls[i].kind = "MethodCall" THEN Empty ELSE NoSlot],
     cursor   |-> 0,
     is_batch |-> request.is_batch]

\* ready_to_respond: cursor exhausted and no Request has an empty slot.
is_ready_to_respond(batch) ==
    /\ batch.cursor = Len(batch.calls)
    /\ \A i \in 1..Len(batch.calls) : batch.slots[i] # Empty

\* advance(): the next not-yet-yielded call, or nothing left.  The result is
\* the tracker after the call and what was yielded (for a Request: its
\* local index).
batch_next(batch) ==
    IF batch.cursor = Len(batch.calls)
    THEN [batch |-> batch, inc |-> None]
    ELSE LET i == batch.cursor + 1
             call == batch.calls[i]
         IN [batch |-> [batch EXCEPT !.cursor = i],
             inc   |-> IF call.kind = "Notification"
                       THEN Some([kind |-> "Notification", notification |-> call])
                       ELSE Some([kind |-> "Request", id |-> i])]

\* Re-resolves a local index to a request handle: the index of a yielded
\* Request whose slot is still empty.
batch_request_by_id(batch, id) ==
    IF /\ id \in 1..batch.cursor
       /\ batch.slots[id] = Empty
    THEN Some([id |-> id, request_id |-> batch.calls[id].id, method |-> batch.calls[id].method])
    ELSE None

\* fill(local_index, result)
batch_set_response(batch, id, response) ==
    [batch EXCEPT !.slots[id] = response]

RequestIdx(batch) == {i \in 1..Len(batch.calls) : batch.calls[i].kind = "MethodCall"}

RECURSIVE Outputs_AnswerLast(_, _)
\* Outputs with the entries listed from the last Request to the first.
Outputs_AnswerLast(batch, i) ==
    IF i > Len(batch.calls) THEN <<>>
    ELSE IF batch.calls[i].kind = "MethodCall"
         THEN Outputs_AnswerLast(batch, i + 1) \o <<Output(batch.slots[i], batch.calls[i].id)>>
         ELSE Outputs_AnswerLast(batch, i + 1)

RECURSIVE Outputs(_, _)
\* The Responses of the Requests at positions i.., in original order.
Outputs(batch, i) ==
    IF i > Len(batch.calls) THEN <<>>
    ELSE IF batch.calls[i].kind = "MethodCall"
         THEN <<Output(batch.slots[i], batch.calls[i].id)>> \o Outputs(batch, i + 1)
         ELSE Outputs(batch, i + 1)

\* into_response that gives a single Response whenever one Request is
\* answered, for a batch too.
into_response_ByCount(batch) ==
    IF ~is_ready_to_respond(batch) THEN [kind |-> "Err"]
    ELSE IF RequestIdx(batch) = {} THEN [kind |-> "Ok", value |-> None]
    ELSE IF Cardinality(RequestIdx(batch)) > 1
         THEN [kind |-> "Ok", value |-> Some([kind |-> "Batch", list |-> Outputs(batch, 1)])]
         ELSE [kind |-> "Ok", value |-> Some([kind |-> "Single", output |-> Outputs(batch, 1)[1]])]

\* finish(): Err when not ready; None when the message has zero Requests;
\* otherwise a single Response or the ordered list of Responses.
into_response(batch) ==
    IF ~is_ready_to_respond(batch) THEN [kind |-> "Err"]
    ELSE IF RequestIdx(batch) = {} THEN [kind |-> "Ok", value |-> None]
    ELSE IF batch.is_batch
         THEN [kind |-> "Ok", value |-> Some([kind |-> "Batch", list |-> Outputs(batch, 1)])]
         ELSE [kind |-> "Ok", value |-> Some([kind |-> "Single", output |-> Outputs(batch, 1)[1]])]

(***************************************************************************)
(* BatchesState                                                            *)
(***************************************************************************)
VARIABLES
    next_batch_id,   \* BatchesState::next_batch_id
    batches,         \* BatchesState::batches: ticket -> (BatchState, T)
    ret,             \* what the last operation returned to the host
    log,             \* history: per injected message, what the host has seen
    owner            \* history: which injected message an open ticket holds

vars == <<next_batch_id, batches, ret, log, owner>>

Tickets == 0..(TicketModulus - 1)

wrapping_add(x, n) == (x + n) % TicketModulus

BatchesElemId(outer, inner) == [outer |-> outer, inner |-> inner]

\* BatchesElem: the handle to a request, with the values its accessors give.
BatchesElem(batch_id, inner, user_param) ==
    [batch_id |-> batch_id, inner |-> inner, user_param |-> user_param]

\* id() that leaves the ticket out of the identifier.
ElemId_InnerOnly(elem) == BatchesElemId(0, elem.inner.id)

ElemId(elem) == BatchesElemId(elem.batch_id, elem.inner.id)

Panic == [kind |-> "Panic"]

EmptyMap == [t \in {} |-> None]

\* BatchesState::new
\* new() with the counter started at 1.
Init_FromOne ==
    /\ next_batch_id = 1
    /\ batches = EmptyMap
    /\ ret = None
    /\ log = <<>>
    /\ owner = EmptyMap

Init ==
    /\ next_batch_id = 0
    /\ batches = EmptyMap
    /\ ret = None
    /\ log = <<>>
    /\ owner = EmptyMap

\* The orders in which self.batches.keys() may list the open tickets.
KeyOrders(S) ==
    {k \in [1..Cardinality(S) -> S] : \A i, j \in 1..Cardinality(S) : k[i] = k[j] => i = j}

\* WhatCanWeDo that never finds a batch ready to respond.
WhatCanWeDo_NeverReady(batch) ==
    LET n == batch_next(batch)
    IN  IF n.inc = None
        THEN [kind |-> "Nothing", batch |-> n.batch]
        ELSE IF n.inc.value.kind = "Notification"
             THEN [kind |-> "Notification", batch |-> n.batch,
                   notification |-> n.inc.value.notification]
             ELSE [kind |-> "Request", batch |-> n.batch, id |-> n.inc.value.id]

\* WhatCanWeDo with the index of the Request counted from zero.
WhatCanWeDo_IndexFromZero(batch) ==
    LET is_ready == is_ready_to_respond(batch)
        n == batch_next(batch)
    IN  IF n.inc = None
        THEN IF is_ready THEN [kind |-> "ReadyToRespond", batch |-> n.batch]
                         ELSE [kind |-> "Nothing", batch |-> n.batch]
        ELSE IF n.inc.value.kind = "Notification"
             THEN [kind |-> "Notification", batch |-> n.batch,
                   notification |-> n.inc.value.notification]
             ELSE [kind |-> "Request", batch |-> n.batch, id |-> n.inc.value.id - 1]

\* WhatCanWeDo with the is_ready_to_respond guard of the None arm left out.
WhatCanWeDo_NoReadyGuard(batch) ==
    LET n == batch_next(batch)
    IN  IF n.inc = None
        THEN [kind |-> "ReadyToRespond", batch |-> n.batch]
        ELSE IF n.inc.value.kind = "Notification"
             THEN [kind |-> "Notification", batch |-> n.batch,
                   notification |-> n.inc.value.notification]
             ELSE [kind |-> "Request", batch |-> n.batch, id |-> n.inc.value.id]

\* The first block of the loop body of next_event: is_ready_to_respond is
\* read before batch.next() advances the batch.
WhatCanWeDo(batch) ==
    LET is_ready == is_ready_to_respond(batch)
        n == batch_next(batch)
    IN  IF n.inc = None
        THEN IF is_ready THEN [kind |-> "ReadyToRespond", batch |-> n.batch]
                         ELSE [kind |-> "Nothing", batch |-> n.batch]
        ELSE IF n.inc.value.kind = "Notification"
             THEN [kind |-> "Notification", batch |-> n.batch,
                   notification |-> n.inc.value.notification]
             ELSE [kind |-> "Request", batch |-> n.batch, id |-> n.inc.value.id]

\* Remove that reads the entry and leaves it in the map.
Remove_KeepsEntry(bs, id) == bs

\* self.batches.remove(&batch_id)
Remove(bs, id) == [t \in DOMAIN bs \ {id} |-> bs[t]]

\* Stepped that advances the cursor of every batch of the map.
Stepped_Everywhere(bs, batch_id, batch) ==
    [t \in DOMAIN bs |->
        IF t = batch_id THEN [bs[t] EXCEPT !.batch = batch]
        ELSE [bs[t] EXCEPT !.batch = batch_next(@).batch]]

\* Stepped with batch.next() acting on a copy of the entry.
Stepped_OnCopy(bs, batch_id, batch) == bs

\* batch.next() acts on the entry of the map in place.
Stepped(bs, batch_id, batch) == [bs EXCEPT ![batch_id].batch = batch]

Continue == [kind |-> "Continue"]

\* ArmReadyToRespond that drops the response when other batches are open.
ArmReadyToRespond_QuietWhenBusy(bs, batch_id) ==
    LET removed == Remove(bs, batch_id)
        response == into_response(bs[batch_id].batch)
    IN  IF response.kind = "Err"
        THEN [batches |-> removed, val |-> Panic]
        ELSE IF response.value # None /\ removed = EmptyMap
        THEN [batches |-> removed,
              val |-> [kind |-> "ReadyToSend",
                       response |-> response.value.value,
                       user_param |-> bs[batch_id].user_param]]
        ELSE [batches |-> removed, val |-> Continue]

\* ArmReadyToRespond that returns None from next_event when the retired
\* batch has no response, without scanning the other batches.
ArmReadyToRespond_StopsScan(bs, batch_id) ==
    LET removed == Remove(bs, batch_id)
        response == into_response(bs[batch_id].batch)
    IN  IF response.kind = "Err"
        THEN [batches |-> removed, val |-> Panic]
        ELSE IF response.value # None
        THEN [batches |-> removed,
              val |-> [kind |-> "ReadyToSend",
                       response |-> response.value.value,
                       user_param |-> bs[batch_id].user_param]]
        ELSE [batches |-> removed, val |-> None]

\* ArmReadyToRespond that returns an event also when into_response gives
\* no response: an empty list.
ArmReadyToRespond_AlwaysSends(bs, batch_id) ==
    LET removed == Remove(bs, batch_id)
        response == into_response(bs[batch_id].batch)
    IN  IF response.kind = "Err"
        THEN [batches |-> removed, val |-> Panic]
        ELSE [batches |-> removed,
              val |-> [kind |-> "ReadyToSend",
                       response |-> IF response.value # None THEN response.value.value
                                    ELSE [kind |-> "Batch", list |-> <<>>],
                       user_param |-> bs[batch_id].user_param]]

\* WhatCanWeDo::ReadyToRespond: the batch leaves the map; an event is
\* returned only if into_response gives a response.
ArmReadyToRespond(bs, batch_id) ==
    LET removed == Remove(bs, batch_id)
        response == into_response(bs[batch_id].batch)
    IN  IF response.kind = "Err"
        THEN [batches |-> removed, val |-> Panic]
        ELSE IF response.value # None
        THEN [batches |-> removed,
              val |-> [kind |-> "ReadyToSend",
                       response |-> response.value.value,
                       user_param |-> bs[batch_id].user_param]]
        ELSE [batches |-> removed, val |-> Continue]

\* ArmNotification that hands out the user parameter of the first entry of
\* the map, whatever the batch.
ArmNotification_FirstEntry(bs, batch_id, notification) ==
    [batches |-> bs,
     val |-> [kind |-> "Notification",
              notification |-> notification,
              user_param |-> bs[CHOOSE t \in DOMAIN bs : \A x \in DOMAIN bs : t <= x].user_param]]

\* ArmNotification that drops the notification and goes on with the scan.
ArmNotification_Silent(bs, batch_id, notification) ==
    [batches |-> bs, val |-> Continue]

\* WhatCanWeDo::Notification
ArmNotification(bs, batch_id, notification) ==
    [batches |-> bs,
     val |-> [kind |-> "Notification",
              notification |-> notification,
              user_param |-> bs[batch_id].user_param]]

\* WhatCanWeDo::Request
ArmRequest(bs, batch_id, id) ==
    LET inner == batch_request_by_id(bs[batch_id].batch, id)
    IN  IF inner = None
        THEN [batches |-> bs, val |-> Panic]
        ELSE [batches |-> bs,
              val |-> [kind |-> "Request",
                       elem |-> BatchesElem(batch_id, inner.value, bs[batch_id].user_param)]]

\* One iteration of the for loop of next_event.
Visit(bs, batch_id) ==
    IF batch_id \notin DOMAIN bs
    THEN [batches |-> bs, val |-> Panic]
    ELSE
    LET what == WhatCanWeDo(bs[batch_id].batch)
        stepped == Stepped(bs, batch_id, what.batch)
    IN  CASE what.kind = "Nothing" -> [batches |-> stepped, val |-> Continue]
          [] what.kind = "ReadyToRespond" -> ArmReadyToRespond(stepped, batch_id)
          [] what.kind = "Notification" -> ArmNotification(stepped, batch_id, what.notification)
          [] what.kind = "Request" -> ArmRequest(stepped, batch_id, what.id)

\* Scan that returns None after the first key when that key gave no event.
Scan_FirstKeyOnly(keys, bs) ==
    IF keys = <<>> THEN [batches |-> bs, val |-> None, batch_id |-> -1]
    ELSE LET v == Visit(bs, Head(keys))
         IN  IF v.val = Continue
             THEN [batches |-> v.batches, val |-> None, batch_id |-> -1]
             ELSE [batches |-> v.batches, val |-> v.val, batch_id |-> Head(keys)]

RECURSIVE Scan(_, _)
\* The for loop of next_event over the collected keys: the registry when
\* next_event returns, the returned value and the ticket it is about.
Scan(keys, bs) ==
    IF keys = <<>> THEN [batches |-> bs, val |-> None, batch_id |-> -1]
    ELSE LET v == Visit(bs, Head(keys))
         IN  IF v.val = Continue
             THEN Scan(Tail(keys), v.batches)
             ELSE [batches |-> v.batches, val |-> v.val, batch_id |-> Head(keys)]

Running == ret # Panic

\* History: what the event returned by next_event shows for message u.
LogEvent(entry, val) ==
    CASE val.kind = "Notification" ->
            [entry EXCEPT !.yielded = Append(@, val.notification)]
      [] val.kind = "Request" ->
            [entry EXCEPT !.yielded = Append(@, MethodCall(val.elem.inner.request_id,
                                                           val.elem.inner.method)),
                          !.issued = Append(@, val.elem)]
      [] val.kind = "ReadyToSend" ->
            [entry EXCEPT !.sent = Append(@, [response |-> val.response,
                                              user_param |-> val.user_param])]
      [] OTHER -> entry

\* BatchesState::next_event
next_event ==
    /\ Running
    /\ \E keys \in KeyOrders(DOMAIN batches) :
          LET r == Scan(keys, batches)
              gone == DOMAIN batches \ DOMAIN r.batches
          IN  /\ batches' = r.batches
              /\ ret' = r.val
              /\ owner' = [t \in DOMAIN owner \ gone |-> owner[t]]
              /\ log' = [u \in 1..Len(log) |->
                           LET seen == IF r.batch_id \in DOMAIN owner /\ owner[r.batch_id] = u
                                       THEN LogEvent(log[u], r.val) ELSE log[u]
                           IN  IF \E t \in gone : owner[t] = u
                               THEN [seen EXCEPT !.retired = TRUE] ELSE seen]
    /\ UNCHANGED next_batch_id

\* Occupied that takes ticket 0 for occupied whatever the map.
Occupied_ZeroTaken(bs, id) == id \in DOMAIN bs \/ id = 0

\* Occupied with every entry taken for vacant.
Occupied_Never(bs, id) == FALSE

\* Entry::Occupied / Entry::Vacant of self.batches.entry(id)
Occupied(bs, id) == id \in DOMAIN bs

\* inject shrinks the map each time the probed id is a multiple of this.
ShrinkPeriod == 256

\* shrink_to_fit that empties the map.
shrink_to_fit_Clears(bs) == EmptyMap

\* self.batches.shrink_to_fit(): the capacity changes, the entries do not.
shrink_to_fit(bs) == bs

RECURSIVE inject_loop(_, _)
\* The loop of inject: probes next_batch_id, next_batch_id + 1, ... until
\* an id is vacant; probes counts the iterations of the loop.
inject_loop(bs, id) ==
    LET shrunk == IF id % ShrinkPeriod = 0 THEN shrink_to_fit(bs) ELSE bs
    IN  IF Occupied(shrunk, id)
        THEN [inject_loop(shrunk, wrapping_add(id, 1)) EXCEPT !.probes = @ + 1]
        ELSE [batches |-> shrunk, id |-> id, probes |-> 1]

\* e.insert((batch, user_param))
insert(bs, id, entry) ==
    [t \in DOMAIN bs \cup {id} |-> IF t = id THEN entry ELSE bs[t]]

\* BatchesState::inject.  The loop ends only if some ticket is vacant.
inject(request, user_param) ==
    /\ Running
    /\ Len(log) < MaxInjects
    /\ DOMAIN batches # Tickets
    /\ LET r == inject_loop(batches, next_batch_id)
           batch == from_request(request)
       IN  /\ next_batch_id' = wrapping_add(r.id, 1)
           /\ batches' = insert(r.batches, r.id, [batch |-> batch, user_param |-> user_param])
           /\ owner' = [t \in DOMAIN batches' |->
                            IF t = r.id THEN Len(log) + 1 ELSE owner[t]]
           /\ log' = Append(log, [request |-> request, user_param |-> user_param,
                                  ticket |-> r.id, yielded |-> <<>>, issued |-> <<>>,
                                  answered |-> <<>>, sent |-> <<>>, retired |-> FALSE])
    /\ ret' = None

\* request_by_id_result that falls back to the other open batches when the
\* ticket of the id is not in the map.
request_by_id_result_AnyBatch(bs, id) ==
    LET found == {t \in DOMAIN bs : batch_request_by_id(bs[t].batch, id.inner) # None}
        outer == IF id.outer \in DOMAIN bs \/ found = {} THEN id.outer
                 ELSE CHOOSE t \in found : TRUE
    IN  IF outer \in DOMAIN bs
        THEN LET inner == batch_request_by_id(bs[outer].batch, id.inner)
             IN  IF inner = None THEN None
                 ELSE Some(BatchesElem(outer, inner.value, bs[outer].user_param))
        ELSE None

\* request_by_id_result with the two fields of the id taken for each other.
request_by_id_result_Swapped(bs, id) ==
    IF id.inner \in DOMAIN bs
    THEN LET inner == batch_request_by_id(bs[id.inner].batch, id.outer)
         IN  IF inner = None THEN None
             ELSE Some(BatchesElem(id.inner, inner.value, bs[id.inner].user_param))
    ELSE None

\* BatchesState::request_by_id
request_by_id_result(bs, id) ==
    IF id.outer \in DOMAIN bs
    THEN LET inner == batch_request_by_id(bs[id.outer].batch, id.inner)
         IN  IF inner = None THEN None
             ELSE Some(BatchesElem(id.outer, inner.value, bs[id.outer].user_param))
    ELSE None

ElemIds == {BatchesElemId(o, i) : o \in Tickets, i \in 1..MaxLen}

request_by_id(id) ==
    /\ Running
    /\ ret' = request_by_id_result(batches, id)
    /\ UNCHANGED <<next_batch_id, batches, log, owner>>

\* The handle the host holds right after next_event or request_by_id
\* returned it; any other operation on the registry ends its borrow.
HasHandle == ret.kind \in {"Request", "Some"}

Handle == IF ret.kind = "Request" THEN ret.elem ELSE ret.value

\* elem_set_response that fills every empty slot of the batch.
elem_set_response_AllSlots(bs, elem, response) ==
    [bs EXCEPT ![elem.batch_id].batch.slots =
        [i \in DOMAIN @ |-> IF @[i] = Empty THEN response ELSE @[i]]]

\* elem_set_response that stores an error whatever the response.
elem_set_response_Err(bs, elem, response) ==
    [bs EXCEPT ![elem.batch_id].batch = batch_set_response(@, elem.inner.id, "Err")]

\* self.inner.set_response(response) on the request the handle refers to.
elem_set_response(bs, elem, response) ==
    [bs EXCEPT ![elem.batch_id].batch = batch_set_response(@, elem.inner.id, response)]

\* set_response that borrows the handle and leaves it with the host.
set_response_KeepsHandle(response) ==
    /\ Running
    /\ HasHandle
    /\ LET elem == Handle
           u == owner[elem.batch_id]
       IN  /\ batches' = elem_set_response(batches, elem, response)
           /\ log' = [log EXCEPT ![u].answered =
                          Append(@, [id |-> ElemId(elem),
                                     request_id |-> elem.inner.request_id,
                                     result |-> response])]
    /\ ret' = ret
    /\ UNCHANGED <<next_batch_id, owner>>

\* BatchesElem::set_response
set_response(response) ==
    /\ Running
    /\ HasHandle
    /\ LET elem == Handle
           u == owner[elem.batch_id]
       IN  /\ batches' = elem_set_response(batches, elem, response)
           /\ log' = [log EXCEPT ![u].answered =
                          Append(@, [id |-> ElemId(elem),
                                     request_id |-> elem.inner.request_id,
                                     result |-> response])]
    /\ ret' = None
    /\ UNCHANGED <<next_batch_id, owner>>

\* batches() with the batches left out whose calls are all yielded.
batches_iter_Unfinished(bs) ==
    LET S == {t \in DOMAIN bs : bs[t].batch.cursor < Len(bs[t].batch.calls)}
    IN  {[i \in 1..Cardinality(S) |-> bs[k[i]].user_param] : k \in KeyOrders(S)}

\* BatchesState::batches: the user parameters of the entries of the map, in
\* one of the orders values_mut() may list them.
batches_iter(bs) ==
    {[i \in 1..Cardinality(DOMAIN bs) |-> bs[k[i]].user_param] : k \in KeyOrders(DOMAIN bs)}

(***************************************************************************)
(* The Diem bridge of src/main.rs: DiemBridge and the loop of bridge()     *)
(***************************************************************************)

\* Versions of the ledger the account's transactions and events go up to.
MaxVersion == 2

\* Versions and epochs of the ledger infos the full node answers with.
MaxProofVersion == 1

MaxEpoch == 1

\* Submissions to pRuntime counted per transaction version.
MaxSubmissions == 2

VARIABLES
    diem,        \* the DiemBridge of bridge(): its Option fields
    chain,       \* the ledger seen through the Diem rpc endpoint: chain[v] is
                 \* what the transaction of version v is for the account
    submitted,   \* history: per version, the VerifyTransaction queries
                 \* that pRuntime answered
    last_verify, \* history: the last call of verify_state_proof
    pc           \* where bridge() stands

bvars == <<diem, chain, submitted, last_verify, pc>>

LedgerInfo(version, epoch) == [version |-> version, epoch |-> epoch]

\* TrustedState::try_from(ledger_info)
TrustedState(li) == [version |-> li.version, epoch |-> li.epoch]

latest_version(trusted_state) == trusted_state.version

\* What the account sees of a transaction: one it sent (a user transaction
\* or another kind of transaction data) or one that paid it (an event under
\* its received_events_key).
TxKinds == {"UserTransaction", "WriteSet", "Received"}

RpcErr == [kind |-> "RpcErr"]

\* The answers of get_state_proof(0): the first ledger info of the epoch
\* change proof and the latest ledger info.  The full node is not trusted:
\* any pair of versions may come.
StateProofs ==
    {[kind |-> "StateProof", zero |-> LedgerInfo(z, 0), li |-> LedgerInfo(v, e)] :
        z \in 0..MaxProofVersion, v \in 0..MaxProofVersion, e \in 0..MaxEpoch}

\* TrustedState::verify_and_ratchet (diem_types): an error when the proof
\* or the signatures do not verify, else the change to the state of li.
verify_and_ratchet(trusted_state, li, verified) ==
    IF ~verified THEN [kind |-> "Err"]
    ELSE IF li.epoch > trusted_state.epoch
    THEN [kind |-> "Epoch", new_state |-> TrustedState(li),
          latest_epoch_change_li |-> LedgerInfo(li.version, li.epoch - 1)]
    ELSE IF li.version = trusted_state.version
    THEN [kind |-> "NoChange"]
    ELSE [kind |-> "Version", new_state |-> TrustedState(li)]

\* verify_state_proof without the check of the ledger info version.
verify_state_proof_NoEnsure(self, li, verified) ==
    LET change == verify_and_ratchet(self.trusted_state.value, li, verified)
    IN  CASE change.kind = "Err" -> [self |-> self, result |-> "Err"]
          [] change.kind = "Epoch" ->
                [self |-> [self EXCEPT
                              !.trusted_state = Some(change.new_state),
                              !.latest_epoch_change_li = Some(change.latest_epoch_change_li)],
                 result |-> "Ok"]
          [] change.kind = "Version" ->
                [self |-> [self EXCEPT !.trusted_state = Some(change.new_state)],
                 result |-> "Ok"]
          [] change.kind = "NoChange" -> [self |-> self, result |-> "Ok"]

\* DiemBridge::verify_state_proof
verify_state_proof(self, li, verified) ==
    LET client_version == latest_version(self.trusted_state.value)
    IN  IF ~(li.version >= client_version)
        THEN [self |-> self, result |-> "Err"]
        ELSE
        LET change == verify_and_ratchet(self.trusted_state.value, li, verified)
        IN  CASE change.kind = "Err" -> [self |-> self, result |-> "Err"]
              [] change.kind = "Epoch" ->
                    [self |-> [self EXCEPT
                                  !.trusted_state = Some(change.new_state),
                                  !.latest_epoch_change_li = Some(change.latest_epoch_change_li)],
                     result |-> "Ok"]
              [] change.kind = "Version" ->
                    [self |-> [self EXCEPT !.trusted_state = Some(change.new_state)],
                     result |-> "Ok"]
              [] change.kind = "NoChange" -> [self |-> self, result |-> "Ok"]

\* DiemBridge::init_state.  resp is the answer of get_state_proof, set_ok
\* whether pRuntime accepts SetTrustedState (asked only when pr is given).
\* The result of verify_state_proof is dropped.
init_state(self, pr, resp, verified, set_ok) ==
    IF resp = RpcErr
    THEN [self |-> self, result |-> "Err", verify |-> None]
    ELSE
    LET zeroed == [self EXCEPT
                      !.latest_epoch_change_li = Some(resp.zero),
                      !.trusted_state = Some(TrustedState(resp.zero)),
                      !.latest_li = Some(resp.li),
                      !.epoch_change_proof = Some([zero |-> resp.zero])]
        v == verify_state_proof(zeroed, resp.li, verified)
    IN  [self |-> v.self,
         result |-> IF pr /\ ~set_ok THEN "Err" ELSE "Ok",
         verify |-> Some([li |-> resp.li,
                          before |-> zeroed.trusted_state.value,
                          before_li |-> zeroed.latest_epoch_change_li,
                          after |-> v.self.trusted_state.value,
                          after_li |-> v.self.latest_epoch_change_li,
                          result |-> v.result])]

\* What happens to one transaction in sync_transaction_with_proof: the
\* proof cannot be got (logged, Ok), the query to pRuntime fails (Err), or
\* pRuntime answers the VerifyTransaction query (Ok).
Outcomes == {"NoProof", "QueryErr", "Submitted"}

\* DiemBridge::sync_transaction_with_proof
sync_transaction_with_proof(outcome) ==
    CASE outcome = "NoProof" -> [result |-> "Ok", sent |-> FALSE]
      [] outcome = "QueryErr" -> [result |-> "Err", sent |-> FALSE]
      [] outcome = "Submitted" -> [result |-> "Ok", sent |-> TRUE]

RECURSIVE sync_each(_, _)
\* for transaction in need_sync_transactions { sync_transaction_with_proof(..)? }:
\* the versions submitted, and Err as soon as one call fails.
sync_each(todo, outcome) ==
    IF todo = <<>> THEN [result |-> "Ok", sent |-> <<>>]
    ELSE LET one == sync_transaction_with_proof(outcome[Head(todo)])
         IN  IF one.result = "Err" THEN [result |-> "Err", sent |-> <<>>]
             ELSE LET rest == sync_each(Tail(todo), outcome)
                  IN  [rest EXCEPT !.sent = (IF one.sent THEN <<Head(todo)>> ELSE <<>>) \o @]

\* The versions v <= Len(ch) with ch[v] in kinds, in order.
VersionsOf(ch, kinds) ==
    SelectSeq([v \in 1..Len(ch) |-> v], LAMBDA v : ch[v] \in kinds)

\* The first limit elements of seq.
Take(seq, limit) == SubSeq(seq, 1, IF limit < Len(seq) THEN limit ELSE Len(seq))

\* self.x.is_some() && self.x.unwrap().iter().any(|x| x.version == version)
Exists(known, version) ==
    known # None /\ \E i \in 1..Len(known.value) : known.value[i] = version

\* DiemBridge::sync_sent_transactions
sync_sent_transactions(self, ch, env, state_initiated) ==
    IF env.fails_at = "txs_rpc"
    THEN [self |-> self, result |-> "Err", sent |-> <<>>, verify |-> None]
    ELSE
    LET transactions == Take(VersionsOf(ch, {"UserTransaction", "WriteSet"}),
                             self.account.value.sequence_number)
        need_sync_transactions ==
            SelectSeq(transactions,
                      LAMBDA v : ~Exists(self.transactions, v) /\ ch[v] = "UserTransaction")
        init == IF need_sync_transactions # <<>> /\ ~state_initiated
                THEN init_state(self, FALSE, env.init, env.verified, TRUE)
                ELSE [self |-> self, result |-> "Ok", verify |-> None]
    IN  IF init.result = "Err"
        THEN [self |-> init.self, result |-> "Err", sent |-> <<>>, verify |-> init.verify]
        ELSE LET r == sync_each(need_sync_transactions, env.outcome)
             IN  IF r.result = "Err"
                 THEN [self |-> init.self, result |-> "Err", sent |-> r.sent,
                       verify |-> init.verify]
                 ELSE [self |-> [init.self EXCEPT !.transactions = Some(transactions)],
                       result |-> "Ok", sent |-> r.sent, verify |-> init.verify]

\* DiemBridge::sync_receiving_transactions.  A transaction that
\* get_transaction_by_version does not give is skipped like one without proof.
sync_receiving_transactions(self, ch, env, sequence_number, state_initiated) ==
    IF env.fails_at = "events_rpc"
    THEN [self |-> self, result |-> "Err", sent |-> <<>>, verify |-> None]
    ELSE
    LET received_events == Take(VersionsOf(ch, {"Received"}), sequence_number)
        new_events == SelectSeq(received_events,
                                LAMBDA v : ~Exists(self.received_events, v))
        init == IF new_events # <<>> /\ ~state_initiated
                THEN init_state(self, FALSE, env.init, env.verified, TRUE)
                ELSE [self |-> self, result |-> "Ok", verify |-> None]
    IN  IF init.result = "Err"
        THEN [self |-> init.self, result |-> "Err", sent |-> <<>>, verify |-> init.verify]
        ELSE LET r == sync_each(new_events, env.outcome)
             IN  IF r.result = "Err"
                 THEN [self |-> init.self, result |-> "Err", sent |-> r.sent,
                       verify |-> init.verify]
                 ELSE [self |-> [init.self EXCEPT !.received_events = Some(received_events)],
                       result |-> "Ok", sent |-> r.sent, verify |-> init.verify]

\* What the full node and pRuntime answer during one round of the loop;
\* fails_at is the step of sync_account that returns early, if any.
\* When sync_account returns before it syncs transactions the other answers
\* are never asked for.
Envs ==
    [fails_at : {"account_rpc", "no_account", "account_query"},
     init : {RpcErr},
     verified : {FALSE},
     outcome : {[v \in 1..MaxVersion |-> "NoProof"]}]
    \cup
    [fails_at : {"none", "events_rpc", "txs_rpc"},
     init : StateProofs \cup {RpcErr},
     verified : BOOLEAN,
     outcome : [1..MaxVersion -> Outcomes]]

\* DiemBridge::sync_account.  state_initiated is a local that is passed by
\* value and stays false.
sync_account(self, ch, env) ==
    IF env.fails_at = "account_rpc"
    THEN [self |-> self, result |-> "Err", sent |-> <<>>, verify |-> None]
    ELSE IF env.fails_at = "no_account"
    THEN [self |-> self, result |-> "Ok", sent |-> <<>>, verify |-> None]
    ELSE
    LET state_initiated == FALSE
        sequence_number == Len(VersionsOf(ch, {"UserTransaction", "WriteSet"}))
        known == [self EXCEPT !.account = Some([sequence_number |-> sequence_number])]
    IN  IF env.fails_at = "account_query"
        THEN [self |-> known, result |-> "Err", sent |-> <<>>, verify |-> None]
        ELSE
        LET recv == IF sequence_number > 0
                    THEN sync_receiving_transactions(known, ch, env, sequence_number,
                                                     state_initiated)
                    ELSE [self |-> known, result |-> "Ok", sent |-> <<>>, verify |-> None]
        IN  IF recv.result = "Err" THEN recv
            ELSE LET snt == sync_sent_transactions(recv.self, ch, env, state_initiated)
                 IN  [snt EXCEPT !.sent = recv.sent \o @,
                                 !.verify = IF @ = None THEN recv.verify ELSE @]

\* DiemBridge::new and the start of bridge(); nothing is on the ledger yet.
DiemBridge_new ==
    /\ diem = [epoch_change_proof |-> None, trusted_state |-> None,
               latest_epoch_change_li |-> None, latest_li |-> None,
               received_events |-> None, transactions |-> None, account |-> None]
    /\ chain = <<>>
    /\ submitted = [v \in 1..MaxVersion |-> 0]
    /\ last_verify = None
    /\ pc = "start"

\* bridge(): diem.init_state(Some(&pr)).await?
bridge_init_state ==
    /\ pc = "start"
    /\ \E resp \in StateProofs \cup {RpcErr}, verified \in BOOLEAN, set_ok \in BOOLEAN :
          LET r == init_state(diem, TRUE, resp, verified, set_ok)
          IN  /\ diem' = r.self
              /\ last_verify' = r.verify
              /\ pc' = IF r.result = "Ok" THEN "loop" ELSE "exited"
    /\ UNCHANGED <<chain, submitted>>

\* One iteration of the loop of bridge(): let _ = diem.sync_account(..).await
bridge_loop ==
    /\ pc = "loop"
    /\ \E env \in Envs :
          LET r == sync_account(diem, chain, env)
              count == [v \in 1..MaxVersion |->
                           submitted[v] + Cardinality({i \in 1..Len(r.sent) : r.sent[i] = v})]
          IN  /\ \A v \in 1..MaxVersion : count[v] <= MaxSubmissions
              /\ diem' = r.self
              /\ submitted' = count
              /\ last_verify' = IF r.verify = None THEN last_verify ELSE r.verify
    /\ UNCHANGED <<chain, pc>>

\* The ledger grows by one transaction of the account.
commit(kind) ==
    /\ Len(chain) < MaxVersion
    /\ chain' = Append(chain, kind)
    /\ UNCHANGED <<diem, submitted, last_verify, pc>>

\* The state after construction: BatchesState::new() and DiemBridge::new().
Constructed == Init /\ DiemBridge_new

BridgeNext ==
    \/ bridge_init_state /\ UNCHANGED vars
    \/ bridge_loop /\ UNCHANGED vars
    \/ \E kind \in TxKinds : commit(kind) /\ UNCHANGED vars

BridgeSpec == Constructed /\ [][BridgeNext]_bvars

Next ==
    \/ \E i \in Injections : inject(i.request, i.user_param) /\ UNCHANGED bvars
    \/ next_event /\ UNCHANGED bvars
    \/ \E id \in ElemIds : request_by_id(id) /\ UNCHANGED bvars
    \/ \E response \in Results : set_response(response) /\ UNCHANGED bvars

Spec == Constructed /\ [][Next]_vars

(***************************************************************************)
(* The history, read per injected message                                  *)
(***************************************************************************)
Uids == 1..Len(log)

IsMethodCall(call) == call.kind = "MethodCall"

\* The Requests of a client message, in the order of the message.
RequestsOf(request) == SelectSeq(request.calls, IsMethodCall)

\* The entries of an emitted response.
Entries(response) ==
    IF response.kind = "Single" THEN <<response.output>> ELSE response.list

Count(seq, x) == Cardinality({i \in DOMAIN seq : seq[i] = x})

IsPrefix(s, t) == Len(s) <= Len(t) /\ \A i \in 1..Len(s) : s[i] = t[i]

\* Message u is in the registry.
IsOpen(u) == \E t \in DOMAIN batches : owner[t] = u

AllYielded(u) == log[u].yielded = log[u].request.calls

\* Every Request of message u has been handed out and answered.
AllAnswered(u) ==
    /\ Len(log[u].issued) = Len(RequestsOf(log[u].request))
    /\ \A k \in 1..Len(log[u].issued) :
          \E i \in 1..Len(log[u].answered) : log[u].answered[i].id = ElemId(log[u].issued[k])

\* The handle e given out for message u has not been answered.
Pending(u, e) == \A i \in 1..Len(log[u].answered) : log[u].answered[i].id # ElemId(e)

\* The host gets hold of a Request that waits for its answer.
resolve == \E id \in ElemIds : request_by_id(id) /\ ret'.kind = "Some"

\* A call of next_event changes the state: a value is held by the host, or
\* some batch of the registry has a call to yield or is ready to respond.
\* This is the enabling condition of <<next_event>>_vars.
NextEventHasWork ==
    /\ Running
    /\ \/ ret # None
       \/ \E t \in DOMAIN batches : WhatCanWeDo(batches[t].batch).kind # "Nothing"

\* The host of the liveness claim: it keeps calling next_event (weak fairness
\* of next_event, with its enabling condition written out), it keeps
\* resolving the Requests that wait for an answer, and a handle that is
\* obtained again and again is answered.
FairSpec ==
    /\ Spec
    /\ ([]<>(~NextEventHasWork) \/ []<><<next_event>>_vars)
    /\ WF_vars(resolve)
    /\ SF_vars(\E response \in Results : set_response(response))

(***************************************************************************)
(* Claims                                                                  *)
(***************************************************************************)

\* C1: next_event takes a batch out of the registry, with a ReadyToSend or
\* silently, only when all its calls have been yielded and all its Requests
\* answered; a batch that only waits for answers gets no event.
C1_RetiredOnlyWhenDone ==
    \A u \in Uids :
       /\ log[u].retired = ~IsOpen(u)
       /\ (log[u].retired \/ log[u].sent # <<>>) => AllYielded(u) /\ AllAnswered(u)
       /\ Len(log[u].yielded) <= Len(log[u].request.calls)

\* C1 witness: one batch with a Request has been retired with its response
\* while another, fully yielded, still waits for an answer.
C1_Witness ==
    \E u, v \in Uids :
       /\ log[u].retired /\ Len(log[u].sent) = 1
       /\ IsOpen(v) /\ AllYielded(v) /\ ~AllAnswered(v)
       /\ ret = None

\* C2: a batch with a Request gets at most one ReadyToSend, exactly one once
\* it has left the registry, and each of its Requests has exactly one entry
\* in what was emitted for the batch.
C2_OneResponsePerBatch ==
    \A u \in Uids :
       LET rqs == RequestsOf(log[u].request) IN
       /\ Len(log[u].sent) <= 1
       /\ (log[u].retired /\ rqs # <<>>) => Len(log[u].sent) = 1
       /\ \A s \in 1..Len(log[u].sent) : \A k \in 1..Len(rqs) :
             Cardinality({i \in DOMAIN Entries(log[u].sent[s].response) :
                             Entries(log[u].sent[s].response)[i].id = rqs[k].id}) = 1

\* C2 witness: the response of the three-call batch has been emitted.
C2_Witness ==
    \E u \in Uids :
       /\ Len(RequestsOf(log[u].request)) = 2
       /\ Len(log[u].sent) = 1
       /\ log[u].retired

\* C3: the entries of an emitted response are in the order of the Requests
\* in the client message, whatever the order of the answers.
C3_OriginalOrder ==
    \A u \in Uids : \A s \in 1..Len(log[u].sent) :
       LET rqs == RequestsOf(log[u].request)
           entries == Entries(log[u].sent[s].response)
       IN  [i \in 1..Len(entries) |-> entries[i].id] = [k \in 1..Len(rqs) |-> rqs[k].id]

\* C3 witness: id=2 was answered before id=1 and the response was emitted.
C3_Witness ==
    \E u \in Uids :
       /\ Len(log[u].sent) = 1
       /\ Len(log[u].answered) = 2
       /\ log[u].answered[1].request_id = 2
       /\ log[u].answered[2].request_id = 1

\* Every open batch is a message without Request whose calls are all yielded.
OnlyDoneNotificationBatches ==
    /\ DOMAIN batches # {}
    /\ \A t \in DOMAIN batches :
          /\ RequestsOf(log[owner[t]].request) = <<>>
          /\ AllYielded(owner[t])

\* C4: a message without Request never gets a ReadyToSend; once its
\* Notifications are yielded, next_event returns None and retires it.
C4_NoResponseWithoutRequest ==
    /\ [](\A u \in Uids : RequestsOf(log[u].request) = <<>> => log[u].sent = <<>>)
    /\ [][(next_event /\ OnlyDoneNotificationBatches)
            => (ret' = None /\ batches' = EmptyMap)]_vars

\* C4 witness: a batch of two Notifications, an empty batch or a single
\* Notification has been retired, with nothing returned.
C4_Witness ==
    /\ \E u \in Uids :
          /\ Len(log[u].request.calls) = 2
          /\ RequestsOf(log[u].request) = <<>>
          /\ log[u].retired
    /\ \E u \in Uids : log[u].request = Batch(<<>>) /\ log[u].retired
    /\ ret = None

\* C5: an emitted response has one entry per Request of the batch and none
\* for a Notification; the entries are the client ids of the Requests, each
\* with the result given to set_response for it.
C5_EntriesAreTheAnswers ==
    \A u \in Uids : \A s \in 1..Len(log[u].sent) :
       LET entries == Entries(log[u].sent[s].response)
           given == [i \in 1..Len(log[u].answered) |->
                       Output(log[u].answered[i].result, log[u].answered[i].request_id)]
       IN  /\ Len(entries) = Len(RequestsOf(log[u].request))
           /\ Len(entries) = Len(given)
           /\ \A i \in 1..Len(entries) : Count(entries, entries[i]) = Count(given, entries[i])

\* C5 witness: a response with a success and an error has been emitted for
\* the batch that also holds a Notification.
C5_Witness ==
    \E u \in Uids :
       /\ Len(log[u].sent) = 1
       /\ Len(log[u].request.calls) = 3
       /\ \E i, j \in 1..Len(log[u].answered) :
             log[u].answered[i].result = "Ok" /\ log[u].answered[j].result = "Err"

\* C6 (as claimed): an id answered through set_response never resolves
\* again with request_by_id.
C6_AnsweredIdNeverResolves ==
    \A u \in Uids : \A i \in 1..Len(log[u].answered) :
       request_by_id_result(batches, log[u].answered[i].id) = None

\* C7: from the Request event until the answer, request_by_id on the id of
\* the event gives the handle of the event: same batch, same local index,
\* same client id and method, same user parameter.
C7_PendingIdResolves ==
    \A u \in Uids : \A k \in 1..Len(log[u].issued) :
       Pending(u, log[u].issued[k]) =>
          request_by_id_result(batches, ElemId(log[u].issued[k])) = Some(log[u].issued[k])

\* C7 witness: a Request is pending while a later message has been injected,
\* yielded, answered and retired.
C7_Witness ==
    \E u, v \in Uids :
       /\ u < v
       /\ \E k \in 1..Len(log[u].issued) : Pending(u, log[u].issued[k])
       /\ log[v].retired /\ Len(log[v].sent) = 1

\* C8: no two open batches have the same ticket; inject never assigns a
\* ticket held by an open batch, after a wraparound of next_batch_id too.
C8_OpenTicketsDistinct ==
    \A u, v \in Uids :
       (u # v /\ ~log[u].retired /\ ~log[v].retired) => log[u].ticket # log[v].ticket

\* C8 witness: next_batch_id has wrapped around to the ticket of a batch
\* that is still open, and inject has skipped it.
C8_Witness ==
    \E u, v, w \in Uids :
       /\ u < v /\ v < w
       /\ IsOpen(u) /\ IsOpen(w) /\ log[v].retired
       /\ log[w].ticket = log[v].ticket
       /\ log[w].ticket = wrapping_add(log[u].ticket, 1)

\* C9: inject adds one entry under a ticket that was vacant and leaves the
\* entries of the open batches as they were.
C9_InjectFrame ==
    [][Len(log') > Len(log) =>
         \E t \in Tickets \ DOMAIN batches :
            /\ DOMAIN batches' = DOMAIN batches \cup {t}
            /\ \A x \in DOMAIN batches : batches'[x] = batches[x]
            /\ batches'[t] = [batch |-> from_request(log'[Len(log')].request),
                              user_param |-> log'[Len(log')].user_param]]_vars

\* C9 witness: a message has been injected while a batch was open with a
\* call yielded and a Request answered.
C9_Witness ==
    \E u, v \in Uids :
       /\ u < v
       /\ IsOpen(u) /\ IsOpen(v)
       /\ log[u].answered # <<>>
       /\ log[v].yielded = <<>>
       /\ ret = None

\* C10: the calls of a batch are yielded in the order of the message, each
\* once; the cursor of an open batch is the number of calls yielded.
C10_YieldedInOrder ==
    \A u \in Uids :
       /\ IsPrefix(log[u].yielded, log[u].request.calls)
       /\ \A t \in DOMAIN batches :
             owner[t] = u => batches[t].batch.cursor = Len(log[u].yielded)

\* C10 witness: the three calls of a batch have been yielded while another
\* batch was open and partly yielded.
C10_Witness ==
    \E u, v \in Uids :
       /\ u # v
       /\ Len(log[u].yielded) = 3
       /\ IsOpen(v) /\ Len(log[v].yielded) = 1 /\ Len(log[v].request.calls) = 2

\* C11: every event carries the user parameter given to the inject of the
\* batch the event is about: a Notification or Request of message u carries
\* u's user parameter, and so does the ReadyToSend that retires u; every event
\* is about one injected message.
C11_EventCarriesOwnContext ==
    [][next_event =>
        /\ \A u \in Uids :
              /\ Len(log'[u].yielded) > Len(log[u].yielded) =>
                    /\ ret'.kind \in {"Notification", "Request"}
                    /\ ret'.kind = "Notification" => ret'.user_param = log[u].user_param
                    /\ ret'.kind = "Request" => ret'.elem.user_param = log[u].user_param
              /\ Len(log'[u].sent) > Len(log[u].sent) =>
                    /\ ret'.kind = "ReadyToSend"
                    /\ ret'.user_param = log[u].user_param
                    /\ ~IsOpen(u)'
        /\ ret' # None =>
              \E u \in Uids : \/ Len(log'[u].yielded) > Len(log[u].yielded)
                              \/ Len(log'[u].sent) > Len(log[u].sent)]_vars

\* A Notification has been returned while a batch with another user
\* parameter is open.
C11_Witness ==
    /\ ret.kind = "Notification"
    /\ \E u \in Uids : IsOpen(u) /\ log[u].user_param # ret.user_param

\* No next_event has been called since the first message was injected: the
\* message is in the registry with none of its calls yielded (a next_event
\* would have yielded a call or, for an empty batch, retired the batch).
FirstInjectUnvisited == Len(log) = 1 /\ IsOpen(1) /\ log[1].yielded = <<>>

Waiting(u) == AllYielded(u) /\ ~AllAnswered(u)

\* C13: next_event returns None only in a state where every open batch has
\* all its calls yielded and none is ready with a Request to respond to; the
\* batches that retire silently do not end the scan, so after a None every
\* batch still open is fully yielded and has an unanswered Request; on an
\* empty registry next_event returns None and changes nothing.
C13_NoneOnlyWhenNothingToDo ==
    [][next_event =>
        /\ ret' = None =>
              /\ \A u \in Uids : IsOpen(u) =>
                    /\ AllYielded(u)
                    /\ ~(AllAnswered(u) /\ RequestsOf(log[u].request) # <<>>)
              /\ \A u \in Uids : IsOpen(u)' =>
                    /\ Waiting(u)'
                    /\ log'[u] = log[u]
                    /\ batches'[log[u].ticket] = batches[log[u].ticket]
        /\ batches = EmptyMap =>
              /\ ret' = None
              /\ batches' = batches
              /\ next_batch_id' = next_batch_id]_vars

\* Nothing is returned while one batch waits for an answer and another one,
\* made of notifications, has been retired without a response.
C13_Witness ==
    /\ ret = None
    /\ \E u \in Uids : IsOpen(u) /\ Waiting(u) /\ log[u].answered = <<>>
    /\ \E u \in Uids : /\ log[u].retired
                       /\ log[u].sent = <<>>
                       /\ log[u].request.calls # <<>>
    /\ \A u \in Uids : IsOpen(u) => Waiting(u)

\* The id addresses a Request of an open batch that has been yielded and not
\* answered.
AddressesPending(id) ==
    /\ id.outer \in DOMAIN batches
    /\ LET u == owner[id.outer]
       IN  \E k \in 1..Len(log[u].issued) :
              /\ ElemId(log[u].issued[k]) = id
              /\ Pending(u, log[u].issued[k])

\* C14: request_by_id with an id that does not address an open, yielded,
\* unanswered Request returns None and changes neither the registry nor
\* next_batch_id.
C14_UnknownIdIsAbsent ==
    [][\A id \in ElemIds :
          (request_by_id(id) /\ ~AddressesPending(id)) =>
              /\ ret' = None
              /\ batches' = batches
              /\ next_batch_id' = next_batch_id]_vars

\* Nothing was returned in a state that has an id of a retired batch whose
\* ticket is unknown, an answered id and an index that was never a Request,
\* while another Request is pending.
C14_Witness ==
    /\ ret = None
    /\ \E u \in Uids : log[u].retired /\ log[u].issued # <<>>
                       /\ log[u].ticket \notin DOMAIN batches
    /\ \E u \in Uids : /\ IsOpen(u)
                       /\ log[u].answered # <<>>
                       /\ \E k \in 1..Len(log[u].issued) : Pending(u, log[u].issued[k])
                       /\ \E id \in ElemIds : /\ id.outer = log[u].ticket
                                              /\ ~AddressesPending(id)

\* The result stored for the Request with local index i of message u while
\* u is open.
SlotOf(u, i) == batches[log[u].ticket].batch.slots[i]

\* C15: a Request is answered at most once: set_response always writes an
\* empty slot, no id is answered twice, the slot of an answered Request of an
\* open batch holds the result of its one answer, and resolving an answered id
\* of an open batch again gives None and changes no batch.
C15_OneShotAnswer ==
    /\ [](\A u \in Uids :
            /\ \A i, j \in 1..Len(log[u].answered) :
                  log[u].answered[i].id = log[u].answered[j].id => i = j
            /\ IsOpen(u) =>
                  \A i \in 1..Len(log[u].answered) :
                     /\ SlotOf(u, log[u].answered[i].id.inner) = log[u].answered[i].result
                     /\ request_by_id_result(batches, log[u].answered[i].id) = None)
    /\ [][\A response \in Results :
             set_response(response) =>
                /\ batches[Handle.batch_id].batch.slots[Handle.inner.id] = Empty
                /\ \A t \in DOMAIN batches :
                      t # Handle.batch_id => batches'[t] = batches[t]]_vars
    /\ [][\A u \in Uids : \A i \in 1..Len(log[u].answered) :
             (IsOpen(u) /\ request_by_id(log[u].answered[i].id)) =>
                 (ret' = None /\ batches' = batches)]_vars

\* A second attempt on an answered Request of an open batch has returned
\* None: the batch has one answered Request and another one pending.
C15_Witness ==
    /\ ret = None
    /\ \E u \in Uids :
          /\ IsOpen(u)
          /\ Len(log[u].answered) = 1
          /\ Len(log[u].issued) = 2
          /\ SlotOf(u, log[u].answered[1].id.inner) = log[u].answered[1].result

\* Message u is dealt with: all its calls have been yielded, it has left the
\* registry, and it got its response when it holds a Request.
Done(u) ==
    /\ AllYielded(u)
    /\ log[u].retired
    /\ RequestsOf(log[u].request) # <<>> => Len(log[u].sent) = 1

\* C16: under the fair host, every injected message is eventually dealt
\* with (all calls yielded, ReadyToSend given when it holds a Request), and
\* the registry is eventually empty for good.
C16_EveryBatchCompletes ==
    <>[](batches = EmptyMap /\ \A u \in Uids : Done(u))

\* All the messages the bound allows have been injected and dealt with, one
\* of them with a response, and the registry is empty.
C16_Witness ==
    /\ Len(log) = MaxInjects
    /\ batches = EmptyMap
    /\ \A u \in Uids : Done(u)
    /\ \E u \in Uids : Len(log[u].sent) = 1 /\ Len(RequestsOf(log[u].request)) = 2

\* Message u is open with all its calls yielded and all its Requests answered.
ReadyToRespond(u) == IsOpen(u) /\ AllYielded(u) /\ AllAnswered(u)

\* C17 as stated: the first next_event made in a state where a batch is ready
\* to respond removes that batch.
C17_RemovedByFirstCall ==
    [][\A u \in Uids : (next_event /\ ReadyToRespond(u)) => ~IsOpen(u)']_vars

\* C17: a next_event made in a state where a batch is ready to respond either
\* removes that batch or returns an event of another batch and leaves the
\* ready batch as it is; it never returns None with the batch still open.
C17_RemovedWhenReached ==
    [][\A u \in Uids :
          (next_event /\ ReadyToRespond(u)) =>
              \/ ~IsOpen(u)' /\ log'[u].retired
              \/ /\ ret' # None
                 /\ log'[u] = log[u]
                 /\ ReadyToRespond(u)'
                 /\ batches'[log[u].ticket] = batches[log[u].ticket]]_vars

\* A Notification of another batch has been returned while a batch that is
\* ready to respond is still open.
C17_Witness ==
    /\ ret.kind = "Notification"
    /\ \E u \in Uids : ReadyToRespond(u) /\ log[u].user_param # ret.user_param

\* C18: the response has the shape of the message: a single Request gets one
\* single Response, a batch with at least one Request gets a list, also when
\* it holds one Request.
C18_ShapeFollowsMessage ==
    \A u \in Uids :
       /\ \A k \in 1..Len(log[u].sent) :
             /\ log[u].request.is_batch <=> log[u].sent[k].response.kind = "Batch"
             /\ ~log[u].request.is_batch <=> log[u].sent[k].response.kind = "Single"
             /\ log[u].sent[k].response.kind = "Batch" =>
                   Len(log[u].sent[k].response.list) = Len(RequestsOf(log[u].request))
       /\ (log[u].retired /\ RequestsOf(log[u].request) # <<>>) => Len(log[u].sent) = 1

\* A batch of one Request has got a list of one Response and a single Request
\* has got a single Response.
C18_Witness ==
    /\ \E u \in Uids :
          /\ log[u].request.is_batch
          /\ Len(RequestsOf(log[u].request)) = 1
          /\ Len(log[u].sent) = 1
          /\ log[u].sent[1].response.kind = "Batch"
          /\ Len(log[u].sent[1].response.list) = 1
    /\ \E u \in Uids :
          /\ ~log[u].request.is_batch
          /\ Len(log[u].sent) = 1
          /\ log[u].sent[1].response.kind = "Single"

UserParams == {i.user_param : i \in Injections}

\* C19: batches() lists one user parameter per batch in the registry, a
\* batch that waits for an answer included, and none for a retired batch.
C19_OneContextPerOpenBatch ==
    /\ \A u \in Uids : log[u].retired <=> ~IsOpen(u)
    /\ \A s \in batches_iter(batches) :
          /\ Len(s) = Cardinality({u \in Uids : IsOpen(u)})
          /\ \A p \in UserParams :
                Count(s, p) = Cardinality({u \in Uids : IsOpen(u) /\ log[u].user_param = p})

\* Two batches with different user parameters are open, one of them waits
\* for an answer, and a third batch is retired.
C19_Witness ==
    /\ \E u, v \in Uids : /\ IsOpen(u) /\ IsOpen(v)
                          /\ log[u].user_param # log[v].user_param
                          /\ Waiting(u)
    /\ \E u \in Uids : log[u].retired
    /\ \E s \in batches_iter(batches) : Len(s) = 2 /\ s[1] # s[2]

\* C20: next_event never panics: the scanned keys are in the map,
\* into_response succeeds on a batch that is ready to respond, and the
\* Request just yielded resolves.
C20_NoPanic == ret # Panic

\* A Request has been returned after one batch was retired with a response
\* and another one without.
C20_Witness ==
    /\ ret.kind = "Request"
    /\ \E u \in Uids : log[u].retired /\ log[u].sent # <<>>
    /\ \E u \in Uids : log[u].retired /\ log[u].sent = <<>>

\* C21: set_response on a Request of batch A writes the slot of that Request
\* and nothing else: the open tickets and next_batch_id stay, every other
\* batch stays as it is, and A keeps its calls, cursor, user parameter and the
\* slots of its other calls.
C21_SetResponseFrame ==
    [][\A response \in Results :
          set_response(response) =>
             LET a == Handle.batch_id
                 i == Handle.inner.id
             IN  /\ DOMAIN batches' = DOMAIN batches
                 /\ next_batch_id' = next_batch_id
                 /\ \A t \in DOMAIN batches : t # a => batches'[t] = batches[t]
                 /\ batches'[a].user_param = batches[a].user_param
                 /\ batches'[a].batch.calls = batches[a].batch.calls
                 /\ batches'[a].batch.cursor = batches[a].batch.cursor
                 /\ batches'[a].batch.is_batch = batches[a].batch.is_batch
                 /\ batches'[a].batch.slots[i] = response
                 /\ \A j \in DOMAIN batches[a].batch.slots :
                       j # i => batches'[a].batch.slots[j] = batches[a].batch.slots[j]]_vars

\* A Request has been answered in a batch that has another Request with an
\* empty slot, while a second batch is open with a Request that waits.
C21_Witness ==
    /\ ret = None
    /\ \E u, v \in Uids :
          /\ u # v /\ IsOpen(u) /\ IsOpen(v)
          /\ Len(log[u].answered) = 1
          /\ \E j \in DOMAIN batches[log[u].ticket].batch.slots :
                /\ j # log[u].answered[1].id.inner
                /\ SlotOf(u, j) = Empty
          /\ log[v].issued # <<>> /\ log[v].answered = <<>>

\* The batches that a next_event call has kept and changed.
Changed == {t \in DOMAIN batches \cap DOMAIN batches' : batches'[t] # batches[t]}

\* C23: a next_event call adds no batch and changes at most one of the
\* batches it keeps, by moving its cursor one call forward; when it returns a
\* Notification or a Request, that batch is the only one changed, its slots
\* are as before, and every batch removed by the call was ready to respond
\* and had no response.
C23_OneCursorStep ==
    [][next_event =>
          /\ DOMAIN batches' \subseteq DOMAIN batches
          /\ Cardinality(Changed) <= 1
          /\ \A t \in Changed :
                /\ batches'[t] = [batches[t] EXCEPT !.batch.cursor = @ + 1]
                /\ ret'.kind \in {"Notification", "Request"}
                /\ ret'.kind = "Request" => ret'.elem.batch_id = t
          /\ ret'.kind \in {"Notification", "Request"} =>
                /\ Cardinality(Changed) = 1
                /\ \A t \in DOMAIN batches \ DOMAIN batches' :
                      /\ is_ready_to_respond(batches[t].batch)
                      /\ into_response(batches[t].batch) = [kind |-> "Ok", value |-> None]]_vars

\* A Request has been returned while another batch with calls left has its
\* cursor where it was, and a batch has been retired without a response.
C23_Witness ==
    /\ ret.kind = "Request"
    /\ \E t \in DOMAIN batches :
          /\ t # ret.elem.batch_id
          /\ batches[t].batch.cursor = Len(log[owner[t]].yielded)
          /\ batches[t].batch.cursor < Len(batches[t].batch.calls)
    /\ \E u \in Uids : log[u].retired /\ log[u].sent = <<>> /\ log[u].request.calls # <<>>

\* The Requests that have been yielded and not answered, in the open batches.
PendingRequests ==
    {p \in Uids \X (1..MaxLen) :
        /\ IsOpen(p[1])
        /\ p[2] <= Len(log[p[1]].issued)
        /\ Pending(p[1], log[p[1]].issued[p[2]])}

\* C24: two distinct pending Requests never have the same BatchesElemId.
C24_PendingIdsDistinct ==
    \A p, q \in PendingRequests :
       ElemId(log[p[1]].issued[p[2]]) = ElemId(log[q[1]].issued[q[2]]) => p = q

\* Two Requests are pending in one batch and one in another batch, at an
\* index used in the first batch too.
C24_Witness ==
    \E p, q, r \in PendingRequests :
       /\ p[1] = q[1] /\ p[2] # q[2]
       /\ r[1] # p[1]
       /\ log[r[1]].issued[r[2]].inner.id = log[p[1]].issued[p[2]].inner.id

\* C25: whenever some ticket value is not in use, the loop of inject ends
\* after at most (number of open batches + 1) probes, with a vacant ticket;
\* it cannot end only when every ticket value is held by an open batch.
C25_InjectTerminates ==
    /\ DOMAIN batches # Tickets =>
          LET r == inject_loop(batches, next_batch_id)
          IN  /\ r.probes \in 1..(Cardinality(DOMAIN batches) + 1)
              /\ r.id \in Tickets \ DOMAIN batches
              /\ r.id = wrapping_add(next_batch_id, r.probes - 1)
              /\ \A k \in 0..(r.probes - 2) : Occupied(batches, wrapping_add(next_batch_id, k))
    /\ DOMAIN batches = Tickets =>
          \A k \in 0..(TicketModulus - 1) : Occupied(batches, wrapping_add(next_batch_id, k))

\* The counter stands on a ticket in use while another ticket is free: the
\* loop of inject takes (number of open batches + 1) probes, more than one.
C25_Witness ==
    /\ DOMAIN batches # Tickets
    /\ DOMAIN batches # {}
    /\ inject_loop(batches, next_batch_id).probes = Cardinality(DOMAIN batches) + 1

\* C28: the counter starts at 0; as long as it has not wrapped the n-th
\* injected message gets ticket n-1, so the tickets of successive injects
\* increase; next_batch_id is the ticket of the last inject plus one, modulo
\* the range of the counter.
C28_TicketCounter ==
    /\ log = <<>> => next_batch_id = 0
    /\ log # <<>> => next_batch_id = (log[Len(log)].ticket + 1) % TicketModulus
    /\ \A u \in Uids : u <= TicketModulus => log[u].ticket = u - 1
    /\ \A u, v \in Uids : (u < v /\ v <= TicketModulus) => log[u].ticket < log[v].ticket

\* As many messages have been injected as the counter has values: they got
\* the tickets 0, 1, ... in turn and the counter is back at 0.
C28_Witness ==
    /\ Len(log) = TicketModulus
    /\ \A u \in Uids : log[u].ticket = u - 1
    /\ next_batch_id = 0

\* The result given to the Request at position i of message u.
AnswerOf(u, i) ==
    LET k == CHOOSE k \in 1..Len(log[u].answered) : log[u].answered[k].id.inner = i
    IN  log[u].answered[k].result

RECURSIVE ExpectedOutputs(_, _)
\* The entries the response of message u must have, from position i on.
ExpectedOutputs(u, i) ==
    IF i > Len(log[u].request.calls) THEN <<>>
    ELSE IF IsMethodCall(log[u].request.calls[i])
         THEN <<Output(AnswerOf(u, i), log[u].request.calls[i].id)>> \o ExpectedOutputs(u, i + 1)
         ELSE ExpectedOutputs(u, i + 1)

\* The response message u must get once all its Requests are answered.
ExpectedResponse(u) ==
    IF log[u].request.is_batch
    THEN [kind |-> "Batch", list |-> ExpectedOutputs(u, 1)]
    ELSE [kind |-> "Single", output |-> ExpectedOutputs(u, 1)[1]]

\* C22: the events of a batch are a function of its message and of the
\* answers given to its Requests, whatever the scan orders and the other
\* batches: the calls of the message in their order, then, when the message
\* has a Request, the one response made of the answers, else no response;
\* the response comes after all the calls and with the batch's user parameter.
C22_ScanOrderIndependent ==
    \A u \in Uids :
       /\ IsPrefix(log[u].yielded, log[u].request.calls)
       /\ log[u].sent # <<>> => (AllYielded(u) /\ AllAnswered(u) /\ log[u].retired)
       /\ log[u].retired =>
             /\ AllYielded(u)
             /\ IF RequestsOf(log[u].request) = <<>>
                THEN log[u].sent = <<>>
                ELSE log[u].sent = <<[response |-> ExpectedResponse(u),
                                      user_param |-> log[u].user_param]>>

\* Two batches are open, each with some of its calls yielded and some not,
\* and a third one has been retired with its response.
C22_Witness ==
    /\ \E u, v \in Uids :
          /\ u # v /\ IsOpen(u) /\ IsOpen(v)
          /\ log[u].yielded # <<>> /\ ~AllYielded(u)
          /\ log[v].yielded # <<>> /\ ~AllYielded(v)
    /\ \E w \in Uids : log[w].retired /\ log[w].sent # <<>>

\* C26 as stated: over all rounds of the loop of bridge(), rounds that end
\* with an error included, pRuntime gets each sent user transaction at most
\* once.
C26_SubmittedAtMostOnce ==
    \A v \in 1..Len(chain) : chain[v] = "UserTransaction" => submitted[v] <= 1

LedgerInfos == {LedgerInfo(v, e) : v \in 0..MaxProofVersion, e \in 0..MaxEpoch}

\* C27: verify_state_proof with a ledger info older than the trusted state
\* returns an error and leaves trusted_state and latest_epoch_change_li as
\* they are; when it changes trusted_state the version does not go down.
\* Stated for the calls the bridge has made and for every call that could be
\* made in a reachable state.
C27_StaleLedgerInfoRejected ==
    /\ last_verify # None =>
          LET c == last_verify.value
          IN  /\ c.li.version < c.before.version =>
                    /\ c.result = "Err"
                    /\ c.after = c.before
                    /\ c.after_li = c.before_li
              /\ c.after # c.before => c.after.version >= c.before.version
    /\ diem.trusted_state # None =>
          \A li \in LedgerInfos, verified \in BOOLEAN :
             LET r == verify_state_proof(diem, li, verified)
             IN  /\ li.version < latest_version(diem.trusted_state.value) =>
                       (r.result = "Err" /\ r.self = diem)
                 /\ r.self.trusted_state # diem.trusted_state =>
                       latest_version(r.self.trusted_state.value)
                          >= latest_version(diem.trusted_state.value)
                 /\ r.result = "Err" => r.self = diem

\* init_state has called verify_state_proof with a ledger info older than
\* the state it had just set, and got an error.
C27_Witness ==
    /\ last_verify # None
    /\ last_verify.value.li.version < last_verify.value.before.version
    /\ last_verify.value.result = "Err"
    /\ diem.trusted_state = Some(last_verify.value.before)
    /\ pc = "loop"

TypeOK ==
    /\ next_batch_id \in Tickets
    /\ DOMAIN batches \subseteq Tickets
    /\ DOMAIN owner = DOMAIN batches

====
